---------------------------- MODULE Spec2Model ----------------------------
(***************************************************************************)
(* CashRaaga bank statement analyzer (src/app.py): the pipeline            *)
(*   read file -> map columns -> normalise -> categorise -> aggregate      *)
(*   -> savings forecast -> monthly trend table -> CSV download            *)
(* as one run of the script, and the classifier categorize() applied to    *)
(* bounded descriptions.  Cell values, descriptions and tokens are         *)
(* sequences of one-character strings, so that parsing, case folding,      *)
(* trimming, substring search and strftime are computed, not assumed.      *)
(* Amounts are integers (whole currency units).                            *)
(***************************************************************************)
EXTENDS Integers, Sequences, FiniteSets, TLC

\* ------------------------------------------------------------------ bounds
\* Longest uploaded table, in rows.
MaxRows == 3
\* Longest description handed to the classifier, in fragments.
MaxFrags == 2

\* ------------------------------------------------------- program constants
\* src/app.py:622  len(monthly_series) >= 3
MinHistory == 3
\* src/app.py:633  n_future = 3
n_future == 3

\* ------------------------------------------------------------- characters
UpperChars == <<"A", "B", "C", "D", "E", "F", "G", "H", "I", "J", "K", "L", "M", "N", "O", "P", "Q", "R", "S", "T", "U", "V", "W", "X", "Y", "Z">>
LowerChars == <<"a", "b", "c", "d", "e", "f", "g", "h", "i", "j", "k", "l", "m", "n", "o", "p", "q", "r", "s", "t", "u", "v", "w", "x", "y", "z">>
DigitChars == <<"0", "1", "2", "3", "4", "5", "6", "7", "8", "9">>

IndexOf(seq, c) == CHOOSE i \in 1..Len(seq) : seq[i] = c
IsIn(seq, c) == \E i \in 1..Len(seq) : seq[i] = c

\* str.lower() / str.upper() on ASCII text, character by character.
LowerMap == [c \in {UpperChars[i] : i \in 1..Len(UpperChars)} |-> LowerChars[IndexOf(UpperChars, c)]]
UpperMap == [c \in {LowerChars[i] : i \in 1..Len(LowerChars)} |-> UpperChars[IndexOf(LowerChars, c)]]
LowerChar(c) == IF c \in DOMAIN LowerMap THEN LowerMap[c] ELSE c
UpperChar(c) == IF c \in DOMAIN UpperMap THEN UpperMap[c] ELSE c
Lower(s) == [i \in 1..Len(s) |-> LowerChar(s[i])]
Upper(s) == [i \in 1..Len(s) |-> UpperChar(s[i])]

\* str.strip(): leading and trailing blanks removed.
RECURSIVE LStrip(_)
LStrip(s) == IF s # << >> /\ Head(s) = " " THEN LStrip(Tail(s)) ELSE s
RECURSIVE RStrip(_)
RStrip(s) == IF s # << >> /\ s[Len(s)] = " " THEN RStrip(SubSeq(s, 1, Len(s) - 1)) ELSE s
Strip(s) == RStrip(LStrip(s))

\* Python's  k in d  on strings: k occurs in d as a contiguous substring.
Contains(d, k) == \E i \in 0..(Len(d) - Len(k)) : SubSeq(d, i + 1, i + Len(k)) = k
\* any(k in d for k in keywords)
AnyIn(d, keywords) == \E k \in keywords : Contains(d, k)

\* ---------------------------------------------------------- categorisation
\* The label a Python function returns when it falls off its end.
PyNone == "None"

categorize_rent_first(description) ==
    LET d == Lower(description) IN
    IF AnyIn(d, {<<"s", "w", "i", "g", "g", "y">>, <<"z", "o", "m", "a", "t", "o">>, <<"r", "e", "s", "t", "a", "u", "r", "a", "n", "t">>, <<"f", "o", "o", "d">>, <<"d", "i", "n", "i", "n", "g">>}) THEN "Food & Dining"
    ELSE IF Contains(d, <<"r", "e", "n", "t">>) THEN "Rent"
    ELSE IF AnyIn(d, {<<"a", "m", "a", "z", "o", "n">>, <<"f", "l", "i", "p", "k", "a", "r", "t">>, <<"m", "y", "n", "t", "r", "a">>, <<"a", "j", "i", "o">>, <<"m", "e", "e", "s", "h", "o">>}) THEN "Shopping"
    ELSE IF AnyIn(d, {<<"p", "e", "t", "r", "o", "l">>, <<"f", "u", "e", "l">>, <<"s", "h", "e", "l", "l">>, <<"h", "p", "c", "l">>, <<"b", "p", "c", "l">>, <<"i", "n", "d", "i", "a", "n", "o", "i", "l">>}) THEN "Fuel & Transport"
    ELSE IF AnyIn(d, {<<"r", "e", "c", "h", "a", "r", "g", "e">>, <<"j", "i", "o">>, <<"a", "i", "r", "t", "e", "l">>, <<"v", "i", " ">>, <<"v", "o", "d", "a", "f", "o", "n", "e">>, <<"b", "s", "n", "l">>}) THEN "Mobile & Internet"
    ELSE IF AnyIn(d, {<<"e", "l", "e", "c", "t", "r", "i", "c", "i", "t", "y">>, <<"e", "b">>, <<"t", "n", "e", "b">>, <<"g", "a", "s", " ", "b", "i", "l", "l">>, <<"p", "o", "w", "e", "r", " ", "b", "i", "l", "l">>}) THEN "Utilities"
    ELSE IF AnyIn(d, {<<"s", "a", "l", "a", "r", "y">>, <<"p", "a", "y", "r", "o", "l", "l">>, <<"s", "a", "l", "a", "r", "y", " ", "c", "r", "e", "d", "i", "t">>, <<"s", "a", "l", " ">>}) THEN "Salary"
    ELSE IF AnyIn(d, {<<"e", "m", "i">>, <<"l", "o", "a", "n">>, <<"r", "e", "p", "a", "y", "m", "e", "n", "t">>}) THEN "Loans & EMI"
    ELSE IF AnyIn(d, {<<"h", "o", "s", "p", "i", "t", "a", "l">>, <<"p", "h", "a", "r", "m", "a", "c", "y">>, <<"m", "e", "d", "i", "c", "a", "l">>, <<"c", "l", "i", "n", "i", "c">>}) THEN "Health & Medical"
    ELSE IF AnyIn(d, {<<"s", "c", "h", "o", "o", "l">>, <<"c", "o", "l", "l", "e", "g", "e">>, <<"f", "e", "e", "s">>, <<"t", "u", "i", "t", "i", "o", "n">>}) THEN "Education"
    ELSE IF AnyIn(d, {<<"n", "e", "t", "f", "l", "i", "x">>, <<"h", "o", "t", "s", "t", "a", "r">>, <<"p", "r", "i", "m", "e", " ", "v", "i", "d", "e", "o">>, <<"p", "r", "i", "m", "e", " ">>, <<"s", "p", "o", "t", "i", "f", "y">>, <<"w", "y", "n", "k">>}) THEN "Entertainment & Subscriptions"
    ELSE "Others"

categorize_no_default(description) ==
    LET d == Lower(description) IN
    IF AnyIn(d, {<<"s", "w", "i", "g", "g", "y">>, <<"z", "o", "m", "a", "t", "o">>, <<"r", "e", "s", "t", "a", "u", "r", "a", "n", "t">>, <<"f", "o", "o", "d">>, <<"d", "i", "n", "i", "n", "g">>}) THEN "Food & Dining"
    ELSE IF AnyIn(d, {<<"a", "m", "a", "z", "o", "n">>, <<"f", "l", "i", "p", "k", "a", "r", "t">>, <<"m", "y", "n", "t", "r", "a">>, <<"a", "j", "i", "o">>, <<"m", "e", "e", "s", "h", "o">>}) THEN "Shopping"
    ELSE IF Contains(d, <<"r", "e", "n", "t">>) THEN "Rent"
    ELSE IF AnyIn(d, {<<"p", "e", "t", "r", "o", "l">>, <<"f", "u", "e", "l">>, <<"s", "h", "e", "l", "l">>, <<"h", "p", "c", "l">>, <<"b", "p", "c", "l">>, <<"i", "n", "d", "i", "a", "n", "o", "i", "l">>}) THEN "Fuel & Transport"
    ELSE IF AnyIn(d, {<<"r", "e", "c", "h", "a", "r", "g", "e">>, <<"j", "i", "o">>, <<"a", "i", "r", "t", "e", "l">>, <<"v", "i", " ">>, <<"v", "o", "d", "a", "f", "o", "n", "e">>, <<"b", "s", "n", "l">>}) THEN "Mobile & Internet"
    ELSE IF AnyIn(d, {<<"e", "l", "e", "c", "t", "r", "i", "c", "i", "t", "y">>, <<"e", "b">>, <<"t", "n", "e", "b">>, <<"g", "a", "s", " ", "b", "i", "l", "l">>, <<"p", "o", "w", "e", "r", " ", "b", "i", "l", "l">>}) THEN "Utilities"
    ELSE IF AnyIn(d, {<<"s", "a", "l", "a", "r", "y">>, <<"p", "a", "y", "r", "o", "l", "l">>, <<"s", "a", "l", "a", "r", "y", " ", "c", "r", "e", "d", "i", "t">>, <<"s", "a", "l", " ">>}) THEN "Salary"
    ELSE IF AnyIn(d, {<<"e", "m", "i">>, <<"l", "o", "a", "n">>, <<"r", "e", "p", "a", "y", "m", "e", "n", "t">>}) THEN "Loans & EMI"
    ELSE IF AnyIn(d, {<<"h", "o", "s", "p", "i", "t", "a", "l">>, <<"p", "h", "a", "r", "m", "a", "c", "y">>, <<"m", "e", "d", "i", "c", "a", "l">>, <<"c", "l", "i", "n", "i", "c">>}) THEN "Health & Medical"
    ELSE IF AnyIn(d, {<<"s", "c", "h", "o", "o", "l">>, <<"c", "o", "l", "l", "e", "g", "e">>, <<"f", "e", "e", "s">>, <<"t", "u", "i", "t", "i", "o", "n">>}) THEN "Education"
    ELSE IF AnyIn(d, {<<"n", "e", "t", "f", "l", "i", "x">>, <<"h", "o", "t", "s", "t", "a", "r">>, <<"p", "r", "i", "m", "e", " ", "v", "i", "d", "e", "o">>, <<"p", "r", "i", "m", "e", " ">>, <<"s", "p", "o", "t", "i", "f", "y">>, <<"w", "y", "n", "k">>}) THEN "Entertainment & Subscriptions"
    ELSE PyNone

\* def categorize(description): the if-chain, top to bottom.
categorize(description) ==
    LET d == Lower(description) IN
    IF AnyIn(d, {<<"s", "w", "i", "g", "g", "y">>, <<"z", "o", "m", "a", "t", "o">>, <<"r", "e", "s", "t", "a", "u", "r", "a", "n", "t">>, <<"f", "o", "o", "d">>, <<"d", "i", "n", "i", "n", "g">>}) THEN "Food & Dining"
    ELSE IF AnyIn(d, {<<"a", "m", "a", "z", "o", "n">>, <<"f", "l", "i", "p", "k", "a", "r", "t">>, <<"m", "y", "n", "t", "r", "a">>, <<"a", "j", "i", "o">>, <<"m", "e", "e", "s", "h", "o">>}) THEN "Shopping"
    ELSE IF Contains(d, <<"r", "e", "n", "t">>) THEN "Rent"
    ELSE IF AnyIn(d, {<<"p", "e", "t", "r", "o", "l">>, <<"f", "u", "e", "l">>, <<"s", "h", "e", "l", "l">>, <<"h", "p", "c", "l">>, <<"b", "p", "c", "l">>, <<"i", "n", "d", "i", "a", "n", "o", "i", "l">>}) THEN "Fuel & Transport"
    ELSE IF AnyIn(d, {<<"r", "e", "c", "h", "a", "r", "g", "e">>, <<"j", "i", "o">>, <<"a", "i", "r", "t", "e", "l">>, <<"v", "i", " ">>, <<"v", "o", "d", "a", "f", "o", "n", "e">>, <<"b", "s", "n", "l">>}) THEN "Mobile & Internet"
    ELSE IF AnyIn(d, {<<"e", "l", "e", "c", "t", "r", "i", "c", "i", "t", "y">>, <<"e", "b">>, <<"t", "n", "e", "b">>, <<"g", "a", "s", " ", "b", "i", "l", "l">>, <<"p", "o", "w", "e", "r", " ", "b", "i", "l", "l">>}) THEN "Utilities"
    ELSE IF AnyIn(d, {<<"s", "a", "l", "a", "r", "y">>, <<"p", "a", "y", "r", "o", "l", "l">>, <<"s", "a", "l", "a", "r", "y", " ", "c", "r", "e", "d", "i", "t">>, <<"s", "a", "l", " ">>}) THEN "Salary"
    ELSE IF AnyIn(d, {<<"e", "m", "i">>, <<"l", "o", "a", "n">>, <<"r", "e", "p", "a", "y", "m", "e", "n", "t">>}) THEN "Loans & EMI"
    ELSE IF AnyIn(d, {<<"h", "o", "s", "p", "i", "t", "a", "l">>, <<"p", "h", "a", "r", "m", "a", "c", "y">>, <<"m", "e", "d", "i", "c", "a", "l">>, <<"c", "l", "i", "n", "i", "c">>}) THEN "Health & Medical"
    ELSE IF AnyIn(d, {<<"s", "c", "h", "o", "o", "l">>, <<"c", "o", "l", "l", "e", "g", "e">>, <<"f", "e", "e", "s">>, <<"t", "u", "i", "t", "i", "o", "n">>}) THEN "Education"
    ELSE IF AnyIn(d, {<<"n", "e", "t", "f", "l", "i", "x">>, <<"h", "o", "t", "s", "t", "a", "r">>, <<"p", "r", "i", "m", "e", " ", "v", "i", "d", "e", "o">>, <<"p", "r", "i", "m", "e", " ">>, <<"s", "p", "o", "t", "i", "f", "y">>, <<"w", "y", "n", "k">>}) THEN "Entertainment & Subscriptions"
    ELSE "Others"

\* ------------------------------------------------------------ cell parsing
DigitMap == [c \in {DigitChars[i] : i \in 1..Len(DigitChars)} |-> IndexOf(DigitChars, c) - 1]
IsDigits(s) == s # << >> /\ \A i \in 1..Len(s) : s[i] \in DOMAIN DigitMap
DigitVal(c) == DigitMap[c]
RECURSIVE NatOf(_)
NatOf(s) == IF s = << >> THEN 0 ELSE 10 * NatOf(SubSeq(s, 1, Len(s) - 1)) + DigitVal(s[Len(s)])

\* The missing value of a numeric column.
NaN == [nan |-> TRUE, v |-> 0]
\* pd.to_numeric(cell, errors="coerce") on integer literals: an optional minus
\* sign and decimal digits give the number, any other text gives NaN.
to_numeric(s) ==
    IF IsDigits(s) THEN [nan |-> FALSE, v |-> NatOf(s)]
    ELSE IF s # << >> /\ Head(s) = "-" /\ IsDigits(Tail(s)) THEN [nan |-> FALSE, v |-> 0 - NatOf(Tail(s))]
    ELSE NaN

\* The missing value of a datetime column.
NaT == [nat |-> TRUE, y |-> 0, m |-> 0, d |-> 0]
IsLeap(y) == (y % 4 = 0 /\ y % 100 # 0) \/ y % 400 = 0
DaysIn(y, m) == IF m = 2 THEN (IF IsLeap(y) THEN 29 ELSE 28)
                ELSE IF m \in {4, 6, 9, 11} THEN 30 ELSE 31
\* pd.to_datetime(cell, errors="coerce") on ISO text YYYY-MM-DD: a calendar
\* date gives the date, any other text gives NaT.
to_datetime(s) ==
    IF Len(s) = 10 /\ s[5] = "-" /\ s[8] = "-"
       /\ IsDigits(SubSeq(s, 1, 4)) /\ IsDigits(SubSeq(s, 6, 7)) /\ IsDigits(SubSeq(s, 9, 10))
    THEN LET y == NatOf(SubSeq(s, 1, 4))
             m == NatOf(SubSeq(s, 6, 7))
             d == NatOf(SubSeq(s, 9, 10))
         IN IF y >= 1 /\ m \in 1..12 /\ d >= 1 /\ d <= DaysIn(y, m)
            THEN [nat |-> FALSE, y |-> y, m |-> m, d |-> d]
            ELSE NaT
    ELSE NaT

RECURSIVE ZeroPad(_, _)
ZeroPad(n, w) == IF w = 0 THEN << >> ELSE ZeroPad(n \div 10, w - 1) \o <<DigitChars[(n % 10) + 1]>>
\* date.strftime("%Y-%m")
strftime_Ym(date) == ZeroPad(date.y, 4) \o <<"-">> \o ZeroPad(date.m, 2)

\* Python's string order on month labels: code point order over "-" and digits.
LabelChars == <<"-", "0", "1", "2", "3", "4", "5", "6", "7", "8", "9">>
RECURSIVE StrLess(_, _)
StrLess(a, b) ==
    IF b = << >> THEN FALSE
    ELSE IF a = << >> THEN TRUE
    ELSE IF Head(a) = Head(b) THEN StrLess(Tail(a), Tail(b))
    ELSE IndexOf(LabelChars, Head(a)) < IndexOf(LabelChars, Head(b))
\* sorted(set_of_labels)
RECURSIVE sorted(_)
sorted(S) ==
    IF S = {} THEN << >>
    ELSE LET least == CHOOSE x \in S : \A y \in S \ {x} : StrLess(x, y)
         IN <<least>> \o sorted(S \ {least})

RECURSIVE SumOver(_, _)
\* Series.sum() of column SignedAmount over the rows of df at positions P.
SumOver(df, P) ==
    IF P = {} THEN 0
    ELSE LET i == CHOOSE j \in P : TRUE IN df[i].SignedAmount + SumOver(df, P \ {i})
Abs(x) == IF x < 0 THEN 0 - x ELSE x

\* ----------------------------------------------------------------- inputs
\* A cell the file leaves empty: read_csv / read_excel give it as a missing
\* value.  Every other cell is a sequence of single characters.
NA == <<"NaN">>
\* Rows a statement file may hold: date, description, amount and type cells.
SampleRows == {
    [Date |-> <<"2", "0", "2", "4", "-", "0", "1", "-", "0", "5">>, Description |-> <<"S", "W", "I", "G", "G", "Y", " ", "O", "R", "D", "E", "R">>,       Amount |-> <<"4", "5", "0">>,   Type |-> <<"d", "r">>],
    [Date |-> <<"2", "0", "2", "4", "-", "0", "1", "-", "2", "0">>, Description |-> <<"S", "A", "L", "A", "R", "Y", " ", "C", "R", "E", "D", "I", "T">>,      Amount |-> <<"5", "0", "0", "0", "0">>, Type |-> <<" ", "C", "R", " ">>],
    [Date |-> <<"2", "0", "2", "4", "-", "0", "2", "-", "1", "0">>, Description |-> <<"U", "P", "I", "/", "A", "M", "A", "Z", "O", "N", "/", "1", "2", "3">>,     Amount |-> <<"-", "1", "2", "0", "0">>, Type |-> <<"D", "R">>],
    [Date |-> <<"2", "0", "2", "4", "-", "0", "3", "-", "0", "1">>, Description |-> <<"a", "m", "a", "z", "o", "n", " ", "r", "e", "n", "t", " ", "r", "e", "f", "u", "n", "d">>, Amount |-> <<"0">>,     Type |-> <<"C", "R">>],
    [Date |-> <<"2", "0", "2", "4", "-", "0", "3", "-", "1", "5">>, Description |-> NA,                    Amount |-> <<"7", "0", "0">>,   Type |-> <<"N", "E", "F", "T">>],
    [Date |-> <<"2", "0", "2", "4", "-", "0", "2", "-", "1", "4">>, Description |-> <<"F", "u", "e", "l", " ", "H", "P", "C", "L">>,          Amount |-> <<"9", "0", "0">>,   Type |-> <<"D", "r", " ">>],
    [Date |-> <<"2", "0", "2", "4", "-", "1", "3", "-", "0", "1">>, Description |-> <<"E", "M", "I">>,                Amount |-> <<"-", "5">>,    Type |-> <<"D", "R">>],
    [Date |-> <<"2", "0", "2", "4", "-", "0", "2", "-", "2", "8">>, Description |-> <<"x">>,                  Amount |-> <<"a", "b", "c">>,   Type |-> <<"C", "R">>],
    [Date |-> <<"n", "/", "a">>,        Description |-> <<>>,                   Amount |-> <<>>,      Type |-> <<>>]
}
\* Every table of at most MaxRows rows.
Tables == UNION {[1..n -> SampleRows] : n \in 0..MaxRows}
\* What the user may type as the value meaning CREDIT and the value meaning DEBIT.
CreditTokens == {<<"C", "R">>, <<" ", "c", "r", " ">>}
DebitTokens == {<<"D", "R">>, <<"c", "r">>}
\* Errors the forecast's try block may raise.
ForecastErrors == {"fit failed", "predict failed"}
\* Values the fitted model may predict.
PredictedValues == {0 - 100, 250}
\* Pieces descriptions are put together from, when the classifier is applied alone.
Fragments == {
    <<"A", "M", "A", "Z", "O", "N">>, <<"r", "e", "n", "t">>, <<"S", "w", "i", "g", "g", "y">>, <<"p", "e", "t", "r", "o", "l">>, <<"V", "i">>, <<"e", "b">>, <<"s", "a", "l">>, <<"L", "o", "a", "n">>,
    <<"c", "l", "i", "n", "i", "c">>, <<"f", "e", "e", "s">>, <<"P", "r", "i", "m", "e">>, <<" ">>, <<"x">>
}

\* ------------------------------------------------------------------ state
VARIABLES
    pc,                 \* the statement of the script the run is at
    uploaded_file,      \* whether the sidebar uploader holds a file
    df_raw,             \* the table read from the file
    use_type_col,       \* the Credit / Debit checkbox
    type_value_credit,  \* text input "Value meaning CREDIT"
    type_value_debit,   \* text input "Value meaning DEBIT"
    df,                 \* the cleaned transaction table
    total_inflow, total_outflow, savings_total,
    monthly_df,         \* Month, Total Inflow, Total Outflow, Savings
    fit_attempted,      \* auto_arima was called
    forecast_df,        \* Month, Predicted Savings
    notices,            \* st.info / st.warning / st.error calls, in order
    trend_table,        \* the monthly table shown under the forecast
    csv_data,           \* the rows offered by the download button
    pieces,             \* classifier alone: the fragments of the description
    labels              \* classifier alone: what each call returned

vars == <<pc, uploaded_file, df_raw, use_type_col, type_value_credit, type_value_debit,
          df, total_inflow, total_outflow, savings_total, monthly_df, fit_attempted,
          forecast_df, notices, trend_table, csv_data, pieces, labels>>

config_vars == <<use_type_col, type_value_credit, type_value_debit>>
aggregate_vars == <<total_inflow, total_outflow, savings_total, monthly_df>>
output_vars == <<fit_attempted, forecast_df, trend_table, csv_data>>
classifier_vars == <<pieces, labels>>

\* ------------------------------------------------------------ normalisation
\* Line 327, Series.astype(str) on one cell.  A missing cell becomes the text
\* "nan" where astype(str) casts to Python strings (pandas before 3.0) and
\* stays missing where it casts to the string dtype (pandas 3.0 on): the
\* script pins no version, so keeps_na is either.
astype_str(cell, keeps_na) == IF cell = NA /\ ~keeps_na THEN <<"n", "a", "n">> ELSE cell
\* Line 327, Series.fillna(value) on one cell.
fillna(cell, value) == IF cell = NA THEN value ELSE cell

\* Lines 325-330: the Date, Description and Amount columns, then dropna on Amount.
HasAmount(r) == ~r.Amount.nan
amount_rows(raw, keeps_na) ==
    LET all == [i \in 1..Len(raw) |->
                  [idx |-> i, Date |-> raw[i].Date,
                   Description |-> fillna(astype_str(raw[i].Description, keeps_na), << >>),
                   Amount_raw |-> raw[i].Amount, Amount |-> to_numeric(raw[i].Amount)]]
        kept == SelectSeq(all, HasAmount)
    IN [k \in 1..Len(kept) |-> [kept[k] EXCEPT !.Amount = kept[k].Amount.v]]

\* Line 333: the type column of the raw table, upper-cased then stripped.
tseries(raw) == [i \in 1..Len(raw) |-> Strip(Upper(raw[i].Type))]
\* Lines 334-335: the flags, indexed like the raw table.
credit_flag(raw, credit) == [i \in 1..Len(raw) |-> tseries(raw)[i] = Upper(Strip(credit))]
debit_flag(raw, debit) == [i \in 1..Len(raw) |-> tseries(raw)[i] = Upper(Strip(debit))]

\* Line 337: df["Amount"].min() >= 0; the minimum of no rows is NaN, and NaN >= 0 is False.
amount_min_nonneg(d) == d # << >> /\ \A k \in 1..Len(d) : d[k].Amount >= 0

WithSigned(r, s) ==
    [idx |-> r.idx, Date |-> r.Date, Description |-> r.Description,
     Amount_raw |-> r.Amount_raw, Amount |-> r.Amount, SignedAmount |-> s]

\* token_signed starting from the amount instead of 0.0: a row matching neither
\* token keeps its amount.
token_signed_from_amount(r, cflag, dflag) ==
    LET start == r.Amount
        after_credit == IF cflag[r.idx] THEN r.Amount ELSE start
        after_debit == IF dflag[r.idx] THEN 0 - r.Amount ELSE after_credit
    IN after_debit

\* token_signed with the debit assignment missing its minus sign.
token_signed_debit_unnegated(r, cflag, dflag) ==
    LET zero == 0
        after_credit == IF cflag[r.idx] THEN r.Amount ELSE zero
        after_debit == IF dflag[r.idx] THEN r.Amount ELSE after_credit
    IN after_debit

\* Lines 338-340 for one row: 0.0, then the credit assignment, then the debit one.
token_signed(r, cflag, dflag) ==
    LET zero == 0
        after_credit == IF cflag[r.idx] THEN r.Amount ELSE zero
        after_debit == IF dflag[r.idx] THEN 0 - r.Amount ELSE after_credit
    IN after_debit

\* Lines 332-344: the SignedAmount column.
signed_rows(d, raw, use_type, credit, debit) ==
    IF use_type
    THEN IF amount_min_nonneg(d)
         THEN [k \in 1..Len(d) |->
                 WithSigned(d[k], token_signed(d[k], credit_flag(raw, credit), debit_flag(raw, debit)))]
         ELSE [k \in 1..Len(d) |-> WithSigned(d[k], d[k].Amount)]
    ELSE [k \in 1..Len(d) |-> WithSigned(d[k], d[k].Amount)]

\* date_rows without line 347: the rows whose date did not parse are kept.
date_rows_no_dropna(d) ==
    [k \in 1..Len(d) |-> [d[k] EXCEPT !.Date = to_datetime(d[k].Date)]]

\* Lines 346-347: the Date column parsed, then dropna on Date.
HasDate(r) == ~r.Date.nat
date_rows(d) ==
    SelectSeq([k \in 1..Len(d) |-> [d[k] EXCEPT !.Date = to_datetime(d[k].Date)]], HasDate)

\* Lines 325-347 together.
normalise(raw, use_type, credit, debit, keeps_na) ==
    date_rows(signed_rows(amount_rows(raw, keeps_na), raw, use_type, credit, debit))

\* --------------------------------------------------------------- aggregates
\* Line 389 with line 382 before it: the Month column beside Category.
month_of(r) == strftime_Ym(r.Date)
Positive(d) == {k \in 1..Len(d) : d[k].SignedAmount > 0}
Negative(d) == {k \in 1..Len(d) : d[k].SignedAmount < 0}
\* groupby("Month")["SignedAmount"].sum() over the rows at positions P.
groupby_month_sum(d, P) ==
    [m \in {month_of(d[k]) : k \in P} |-> SumOver(d, {k \in P : month_of(d[k]) = m})]
\* Line 391.
monthly_inflow_of(d) == groupby_month_sum(d, Positive(d))
\* monthly_outflow without .abs(): the sums keep their minus sign.
monthly_outflow_of_no_abs(d) == groupby_month_sum(d, Negative(d))

\* Lines 392-394.
monthly_outflow_of(d) ==
    LET g == groupby_month_sum(d, Negative(d)) IN [m \in DOMAIN g |-> Abs(g[m])]
\* all_months without the union: the months of the inflow index alone.
all_months_of_inflow_only(d) == sorted(DOMAIN monthly_inflow_of(d))

\* all_months taken from the Month column: every month of df, also one whose
\* rows are all signed 0.
all_months_of_every_month(d) == sorted({month_of(d[k]) : k \in 1..Len(d)})

\* Line 396.
all_months_of(d) == sorted((DOMAIN monthly_inflow_of(d)) \union (DOMAIN monthly_outflow_of(d)))
\* Lines 397-398: Series.reindex(all_months, fill_value=0).
reindex(series, months) ==
    [k \in 1..Len(months) |-> IF months[k] \in DOMAIN series THEN series[months[k]] ELSE 0]
\* Lines 396-408.
monthly_df_of(d) ==
    LET all_months == all_months_of(d)
        monthly_inflow == reindex(monthly_inflow_of(d), all_months)
        monthly_outflow == reindex(monthly_outflow_of(d), all_months)
    IN [k \in 1..Len(all_months) |->
          [Month |-> all_months[k],
           Total_Inflow |-> monthly_inflow[k],
           Total_Outflow |-> monthly_outflow[k],
           Savings |-> monthly_inflow[k] - monthly_outflow[k]]]
\* Line 409.
monthly_series == [k \in 1..Len(monthly_df) |-> monthly_df[k].Savings]

\* The gate with > for >=.
enough_history_strict(series) == Len(series) > MinHistory

\* Line 622: len(monthly_series) >= 3.
enough_history(series) == Len(series) >= MinHistory

\* Line 645: f"Month +{i+1}" for i in range(n_future).
future_labels == [i \in 1..n_future |-> <<"Month +", i>>]

\* One st.info / st.warning / st.error call; detail is the exception text of an f-string.
Notice(level, text, detail) == [level |-> level, text |-> text, detail |-> detail]

\* ------------------------------------------------------------ the pipeline
Init ==
    /\ pc = "start"
    /\ uploaded_file \in BOOLEAN
    /\ df_raw = << >>
    /\ use_type_col = FALSE
    /\ type_value_credit = << >>
    /\ type_value_debit = << >>
    /\ df = << >>
    /\ total_inflow = 0
    /\ total_outflow = 0
    /\ savings_total = 0
    /\ monthly_df = << >>
    /\ fit_attempted = FALSE
    /\ forecast_df = << >>
    /\ notices = << >>
    /\ trend_table = << >>
    /\ csv_data = << >>
    /\ pieces = << >>
    /\ labels = << >>

\* Lines 265-268: no file in the uploader; st.info, st.stop().
NoUpload ==
    /\ pc = "start"
    /\ ~uploaded_file
    /\ notices' = Append(notices, Notice("info", "Upload a CSV or Excel bank statement", ""))
    /\ pc' = "stopped"
    /\ UNCHANGED <<uploaded_file, df_raw, config_vars, df, aggregate_vars, output_vars,
                   classifier_vars>>

\* Lines 271-284: read_csv / read_excel raises, or gives a table; an empty
\* table stops the run.
ReadFile ==
    /\ pc = "start"
    /\ uploaded_file
    /\ \/ /\ notices' = Append(notices, Notice("error", "Could not read the file", ""))
          /\ pc' = "stopped"
          /\ UNCHANGED df_raw
       \/ \E t \in Tables :
            /\ df_raw' = t
            /\ IF t = << >>
               THEN /\ notices' = Append(notices, Notice("error", "The uploaded file seems to be empty", ""))
                    /\ pc' = "stopped"
               ELSE /\ UNCHANGED notices
                    /\ pc' = "map"
    /\ UNCHANGED <<uploaded_file, config_vars, df, aggregate_vars, output_vars, classifier_vars>>

\* Lines 296-320: the column selectors, the type checkbox and the two tokens.
MapColumns ==
    /\ pc = "map"
    /\ \/ /\ use_type_col' = FALSE
          /\ type_value_credit' = << >>
          /\ type_value_debit' = << >>
       \/ /\ use_type_col' = TRUE
          /\ type_value_credit' \in CreditTokens
          /\ type_value_debit' \in DebitTokens
    /\ pc' = "normalise"
    /\ UNCHANGED <<uploaded_file, df_raw, df, aggregate_vars, output_vars, notices,
                   classifier_vars>>

\* Normalise without lines 349-352: an empty table goes on to categorisation.
Normalise_no_empty_check ==
    /\ pc = "normalise"
    /\ \E keeps_na \in BOOLEAN :
         df' = normalise(df_raw, use_type_col, type_value_credit, type_value_debit, keeps_na)
    /\ pc' = "categorise"
    /\ UNCHANGED <<uploaded_file, df_raw, config_vars, aggregate_vars, output_vars, notices,
                   classifier_vars>>

\* Lines 325-352: the cleaned table; no rows left stops the run.
Normalise ==
    /\ pc = "normalise"
    /\ \E keeps_na \in BOOLEAN :
         df' = normalise(df_raw, use_type_col, type_value_credit, type_value_debit, keeps_na)
    /\ IF df' = << >>
       THEN /\ notices' = Append(notices, Notice("error", "No valid rows after cleaning", ""))
            /\ pc' = "stopped"
       ELSE /\ UNCHANGED notices
            /\ pc' = "categorise"
    /\ UNCHANGED <<uploaded_file, df_raw, config_vars, aggregate_vars, output_vars,
                   classifier_vars>>

\* Line 382: df["Category"] = df["Description"].apply(categorize).
Categorise ==
    /\ pc = "categorise"
    /\ df' = [k \in 1..Len(df) |-> df[k] @@ [Category |-> categorize(df[k].Description)]]
    /\ pc' = "aggregate"
    /\ UNCHANGED <<uploaded_file, df_raw, config_vars, aggregate_vars, output_vars, notices,
                   classifier_vars>>

\* Lines 385-409: the overall totals, the Month column and the monthly table.
Aggregate ==
    /\ pc = "aggregate"
    /\ total_inflow' = SumOver(df, Positive(df))
    /\ total_outflow' = SumOver(df, Negative(df))
    /\ savings_total' = total_inflow' + total_outflow'
    /\ df' = [k \in 1..Len(df) |-> df[k] @@ [Month |-> month_of(df[k])]]
    /\ monthly_df' = monthly_df_of(df)
    /\ pc' = "predict"
    /\ UNCHANGED <<uploaded_file, df_raw, config_vars, output_vars, notices, classifier_vars>>

\* PredictTab without the except clause: an error raised by the fit or the
\* prediction ends the script.
PredictTab_uncaught ==
    /\ pc = "predict"
    /\ IF enough_history(monthly_series)
       THEN /\ fit_attempted' = TRUE
            /\ \/ \E forecast \in [1..n_future -> PredictedValues] :
                    /\ forecast_df' = [i \in 1..n_future |->
                                         [Month |-> future_labels[i],
                                          Predicted_Savings |-> forecast[i]]]
                    /\ pc' = "trend"
               \/ /\ UNCHANGED forecast_df
                  /\ pc' = "stopped"
            /\ UNCHANGED notices
       ELSE /\ notices' = Append(notices, Notice("info", "Upload at least 3 months of data to enable the forecast", ""))
            /\ pc' = "trend"
            /\ UNCHANGED <<fit_attempted, forecast_df>>
    /\ UNCHANGED <<uploaded_file, df_raw, config_vars, df, aggregate_vars, trend_table,
                   csv_data, classifier_vars>>

\* Lines 622-689: the forecast, its try block and its two fallbacks.
PredictTab ==
    /\ pc = "predict"
    /\ IF enough_history(monthly_series)
       THEN /\ fit_attempted' = TRUE
            /\ \/ \E forecast \in [1..n_future -> PredictedValues] :
                    /\ forecast_df' = [i \in 1..n_future |->
                                         [Month |-> future_labels[i],
                                          Predicted_Savings |-> forecast[i]]]
                    /\ UNCHANGED notices
               \/ \E e \in ForecastErrors :
                    /\ notices' = Append(notices, Notice("warning", "Forecast not available", e))
                    /\ UNCHANGED forecast_df
       ELSE /\ notices' = Append(notices, Notice("info", "Upload at least 3 months of data to enable the forecast", ""))
            /\ UNCHANGED <<fit_attempted, forecast_df>>
    /\ pc' = "trend"
    /\ UNCHANGED <<uploaded_file, df_raw, config_vars, df, aggregate_vars, trend_table,
                   csv_data, classifier_vars>>

\* Lines 691-711: the monthly savings chart and table.
TrendTable ==
    /\ pc = "trend"
    /\ trend_table' = <<monthly_df>>
    /\ pc' = "download"
    /\ UNCHANGED <<uploaded_file, df_raw, config_vars, df, aggregate_vars, fit_attempted,
                   forecast_df, notices, csv_data, classifier_vars>>

\* Lines 718-729: the cleaned statement as CSV.
DownloadTab ==
    /\ pc = "download"
    /\ IF Len(df) = 0
       THEN /\ notices' = Append(notices, Notice("warning", "No rows available after processing", ""))
            /\ UNCHANGED csv_data
       ELSE /\ csv_data' = <<[k \in 1..Len(df) |->
                               [Date |-> df[k].Date, Description |-> df[k].Description,
                                Amount |-> df[k].SignedAmount, Category |-> df[k].Category]]>>
            /\ UNCHANGED notices
    /\ pc' = "done"
    /\ UNCHANGED <<uploaded_file, df_raw, config_vars, df, aggregate_vars, fit_attempted,
                   forecast_df, trend_table, classifier_vars>>

Next ==
    \/ NoUpload
    \/ ReadFile
    \/ MapColumns
    \/ Normalise
    \/ Categorise
    \/ Aggregate
    \/ PredictTab
    \/ TrendTable
    \/ DownloadTab

Spec == Init /\ [][Next]_vars

\* ------------------------------------------------------ the classifier alone
\* categorize applied, twice, to every description of at most MaxFrags fragments.
RECURSIVE Flatten(_)
Flatten(ps) == IF ps = << >> THEN << >> ELSE Head(ps) \o Flatten(Tail(ps))

InitCategorize ==
    /\ pc = "classifier"
    /\ uploaded_file = FALSE
    /\ df_raw = << >>
    /\ use_type_col = FALSE
    /\ type_value_credit = << >>
    /\ type_value_debit = << >>
    /\ df = << >>
    /\ total_inflow = 0
    /\ total_outflow = 0
    /\ savings_total = 0
    /\ monthly_df = << >>
    /\ fit_attempted = FALSE
    /\ forecast_df = << >>
    /\ notices = << >>
    /\ trend_table = << >>
    /\ csv_data = << >>
    /\ pieces = << >>
    /\ labels = << >>

AppendFragment ==
    /\ pc = "classifier"
    /\ labels = << >>
    /\ Len(pieces) < MaxFrags
    /\ \E f \in Fragments : pieces' = Append(pieces, f)
    /\ UNCHANGED <<pc, uploaded_file, df_raw, config_vars, df, aggregate_vars, output_vars,
                   notices, labels>>

CallCategorize ==
    /\ pc = "classifier"
    /\ Len(labels) < 2
    /\ labels' = Append(labels, categorize(Flatten(pieces)))
    /\ UNCHANGED <<pc, uploaded_file, df_raw, config_vars, df, aggregate_vars, output_vars,
                   notices, pieces>>

NextCategorize == AppendFragment \/ CallCategorize

SpecCategorize == InitCategorize /\ [][NextCategorize]_vars

\* ================================================================== claims
\* The run has executed the normalisation block (lines 325-352).
Cleaned == pc \in {"categorise", "aggregate", "predict", "trend", "download", "done"}
LastNotice == notices[Len(notices)]
StoppedNoValidRows ==
    pc = "stopped" /\ notices # << >> /\ LastNotice.text = "No valid rows after cleaning"
Normalised == Cleaned \/ StoppedNoValidRows
\* The run has executed the aggregation block (lines 385-409).
Aggregated == pc \in {"predict", "trend", "download", "done"}
\* The run has executed the forecast block (lines 622-689).
Forecasted == pc \in {"trend", "download", "done"}

\* What a claim says of a raw row, stated on the raw cells.
NumericAmount(i) == ~to_numeric(df_raw[i].Amount).nan
ParseableDate(i) == ~to_datetime(df_raw[i].Date).nat
AmountOf(i) == to_numeric(df_raw[i].Amount).v
ValidRow(i) == NumericAmount(i) /\ ParseableDate(i)
NormType(i) == Strip(Upper(df_raw[i].Type))
NormCredit == Strip(Upper(type_value_credit))
NormDebit == Strip(Upper(type_value_debit))
\* The minimum amount over the rows of the input table that have a numeric amount.
SomeAmountNegative == \E i \in 1..Len(df_raw) : NumericAmount(i) /\ AmountOf(i) < 0
MinAmountNonNeg ==
    /\ \E i \in 1..Len(df_raw) : NumericAmount(i)
    /\ ~SomeAmountNegative

\* C1 as stated: with no type column signed_amount = amount; with a type column
\* and minimum amount >= 0, signed_amount is +amount on rows whose type equals
\* the credit token, -amount on rows whose type equals the debit token and 0
\* on rows matching neither; with a type column and a negative amount,
\* signed_amount = amount.
C1_AsStated ==
    Cleaned =>
      /\ \A k \in 1..Len(df) : df[k].Amount = AmountOf(df[k].idx)
      /\ IF ~use_type_col THEN \A k \in 1..Len(df) : df[k].SignedAmount = df[k].Amount
         ELSE /\ MinAmountNonNeg =>
                   \A k \in 1..Len(df) :
                     LET r == df[k] IN
                     /\ NormType(r.idx) = NormCredit => r.SignedAmount = r.Amount
                     /\ NormType(r.idx) = NormDebit => r.SignedAmount = 0 - r.Amount
                     /\ NormType(r.idx) \notin {NormCredit, NormDebit} => r.SignedAmount = 0
              /\ SomeAmountNegative => \A k \in 1..Len(df) : df[k].SignedAmount = df[k].Amount

\* C1 (amended): sign inference, for every input table and every choice of
\* tokens.  No type column: signed_amount = amount.  Type column and minimum
\* amount >= 0: -amount on rows whose trimmed, uppercased type equals the
\* debit token, +amount on rows whose type equals the credit token and not the
\* debit token, 0 on rows matching neither (the debit token wins when both
\* tokens normalise to the same text).  Type column and some negative amount:
\* signed_amount = amount, the type values ignored.
C1_SignInference ==
    Cleaned =>
      /\ \A k \in 1..Len(df) : df[k].Amount = AmountOf(df[k].idx)
      /\ IF ~use_type_col THEN \A k \in 1..Len(df) : df[k].SignedAmount = df[k].Amount
         ELSE /\ MinAmountNonNeg =>
                   \A k \in 1..Len(df) :
                     LET r == df[k] IN
                     /\ NormType(r.idx) = NormDebit => r.SignedAmount = 0 - r.Amount
                     /\ (NormType(r.idx) = NormCredit /\ NormType(r.idx) # NormDebit)
                          => r.SignedAmount = r.Amount
                     /\ NormType(r.idx) \notin {NormCredit, NormDebit} => r.SignedAmount = 0
              /\ SomeAmountNegative => \A k \in 1..Len(df) : df[k].SignedAmount = df[k].Amount

\* C1 witness: a cleaned table signed from the tokens, holding a credit row, a
\* debit row and a row matching neither token.
C1_Witness ==
    /\ Cleaned /\ use_type_col /\ MinAmountNonNeg /\ NormCredit # NormDebit
    /\ \E k \in 1..Len(df) : df[k].Amount > 0 /\ df[k].SignedAmount = df[k].Amount
    /\ \E k \in 1..Len(df) : df[k].Amount > 0 /\ df[k].SignedAmount = 0 - df[k].Amount
    /\ \E k \in 1..Len(df) : df[k].Amount > 0 /\ df[k].SignedAmount = 0

\* The months of the monthly table, and the sum of its Savings column.
BucketMonths == {monthly_df[k].Month : k \in 1..Len(monthly_df)}
RECURSIVE SavingsSum(_)
SavingsSum(t) == IF t = << >> THEN 0 ELSE Head(t).Savings + SavingsSum(Tail(t))
RowsOfMonth(mo) == {k \in 1..Len(df) : df[k].Month = mo}

\* C2: monthly totals reconcile.  In every month of the series
\* savings = total_inflow - total_outflow with both totals >= 0 (outflow a
\* magnitude), and the savings of all months add up to the signed overall
\* total_inflow + total_outflow taken over the whole transaction table.
C2_MonthlyTotalsReconcile ==
    Aggregated =>
      /\ \A k \in 1..Len(monthly_df) :
           /\ monthly_df[k].Savings = monthly_df[k].Total_Inflow - monthly_df[k].Total_Outflow
           /\ monthly_df[k].Total_Inflow >= 0
           /\ monthly_df[k].Total_Outflow >= 0
      /\ total_inflow = SumOver(df, {k \in 1..Len(df) : df[k].SignedAmount > 0})
      /\ total_outflow = SumOver(df, {k \in 1..Len(df) : df[k].SignedAmount < 0})
      /\ SavingsSum(monthly_df) = total_inflow + total_outflow
      /\ savings_total = SavingsSum(monthly_df)

\* C2 witness: two months aggregated, with money in and money out.
C2_Witness ==
    /\ Aggregated
    /\ Len(monthly_df) >= 2
    /\ total_inflow > 0
    /\ total_outflow < 0
    /\ \E k \in 1..Len(monthly_df) : monthly_df[k].Total_Inflow > 0 /\ monthly_df[k].Total_Outflow > 0

\* C5 as stated: rows with a non-numeric amount or an unparseable date are
\* absent from the output, retained rows have a date, an amount and a signed
\* amount, the output is no longer than the input, and every dropped row fails
\* exactly one of the two parse checks.
RetainedIdx == {df[k].idx : k \in 1..Len(df)}
C5_Retention ==
    /\ \A i \in 1..Len(df_raw) : (~NumericAmount(i) \/ ~ParseableDate(i)) => i \notin RetainedIdx
    /\ \A k \in 1..Len(df) :
         /\ df[k].idx \in 1..Len(df_raw)
         /\ ~df[k].Date.nat
         /\ df[k].Amount \in Int
         /\ df[k].SignedAmount \in Int
         /\ \A j \in 1..Len(df) : df[j].idx = df[k].idx => j = k
    /\ Len(df) <= Len(df_raw)
C5_AsStated ==
    Normalised =>
      /\ C5_Retention
      /\ \A i \in (1..Len(df_raw)) \ RetainedIdx : NumericAmount(i) # ParseableDate(i)

\* C5 (amended): rows with a non-numeric amount or an unparseable date are
\* absent from the output, retained rows have a non-null date, a numeric
\* amount and a non-null signed amount, count(output) <= count(input), and
\* every dropped row fails at least one of the two parse checks (a row may
\* fail both).
C5_RowExclusion ==
    Normalised =>
      /\ C5_Retention
      /\ \A i \in (1..Len(df_raw)) \ RetainedIdx : ~NumericAmount(i) \/ ~ParseableDate(i)

\* C5 witness: a cleaned table that kept a row and dropped one for its amount
\* and one for its date.
C5_Witness ==
    /\ Cleaned
    /\ df # << >>
    /\ \E i \in (1..Len(df_raw)) \ RetainedIdx : ~NumericAmount(i) /\ ParseableDate(i)
    /\ \E i \in (1..Len(df_raw)) \ RetainedIdx : NumericAmount(i) /\ ~ParseableDate(i)

\* C6: month union with zero-fill.  A month whose transactions are all
\* negative-signed is in the series with total_inflow = 0, and a month whose
\* transactions are all positive-signed is in it with total_outflow = 0.
DebitOnly(mo) == RowsOfMonth(mo) # {} /\ \A k \in RowsOfMonth(mo) : df[k].SignedAmount < 0
CreditOnly(mo) == RowsOfMonth(mo) # {} /\ \A k \in RowsOfMonth(mo) : df[k].SignedAmount > 0
C6_MonthUnionZeroFill ==
    Aggregated =>
      \A r \in 1..Len(df) :
        LET mo == df[r].Month IN
        /\ DebitOnly(mo) =>
             \E k \in 1..Len(monthly_df) :
               /\ monthly_df[k].Month = mo
               /\ monthly_df[k].Total_Inflow = 0
               /\ monthly_df[k].Total_Outflow = Abs(SumOver(df, RowsOfMonth(mo)))
        /\ CreditOnly(mo) =>
             \E k \in 1..Len(monthly_df) :
               /\ monthly_df[k].Month = mo
               /\ monthly_df[k].Total_Outflow = 0
               /\ monthly_df[k].Total_Inflow = SumOver(df, RowsOfMonth(mo))

\* C6 witness: a series with a debit-only month and a credit-only month.
C6_Witness ==
    /\ Aggregated
    /\ \E r \in 1..Len(df) : DebitOnly(df[r].Month)
    /\ \E r \in 1..Len(df) : CreditOnly(df[r].Month)
    /\ \E k \in 1..Len(monthly_df) : monthly_df[k].Total_Inflow = 0 /\ monthly_df[k].Total_Outflow > 0
    /\ \E k \in 1..Len(monthly_df) : monthly_df[k].Total_Outflow = 0 /\ monthly_df[k].Total_Inflow > 0

\* C7 as stated: the monthly series holds exactly one bucket for each distinct
\* month present among the retained transactions.
NoMonthTwice == \A j, k \in 1..Len(monthly_df) : monthly_df[j].Month = monthly_df[k].Month => j = k
C7_AsStated ==
    Aggregated =>
      /\ BucketMonths = {df[k].Month : k \in 1..Len(df)}
      /\ NoMonthTwice

\* C7 (amended): the monthly series holds exactly one bucket for each distinct
\* month in which some retained transaction has a non-zero signed_amount; a
\* month whose retained transactions are all signed 0 has no bucket; no month
\* appears twice.
C7_OneBucketPerMonth ==
    Aggregated =>
      /\ BucketMonths = {df[k].Month : k \in {j \in 1..Len(df) : df[j].SignedAmount # 0}}
      /\ NoMonthTwice

\* C7 witness: a series of two buckets beside a month left out because its
\* only transaction is signed 0.
C7_Witness ==
    /\ Aggregated
    /\ Len(monthly_df) = 2
    /\ \E k \in 1..Len(df) : df[k].SignedAmount = 0 /\ df[k].Month \notin BucketMonths

\* The two notices of the forecast block.
InsufficientHistory ==
    \E n \in 1..Len(notices) :
      /\ notices[n].level = "info"
      /\ notices[n].text = "Upload at least 3 months of data to enable the forecast"
ForecastFailed ==
    \E n \in 1..Len(notices) :
      notices[n].level = "warning" /\ notices[n].text = "Forecast not available"

\* C8: forecast gating.  With fewer than 3 points in the monthly savings series
\* the fit is never attempted and an insufficient-history notice is reported,
\* which is not the forecast-failure warning; with 3 or more points the fit is
\* attempted, and a try block that raises nothing yields exactly 3 forecast
\* points labelled Month +1, Month +2, Month +3.
C8_ForecastGating ==
    /\ ~Forecasted => (~fit_attempted /\ forecast_df = << >>)
    /\ Forecasted =>
         IF Len(monthly_df) < 3
         THEN /\ ~fit_attempted
              /\ forecast_df = << >>
              /\ InsufficientHistory
              /\ ~ForecastFailed
         ELSE /\ fit_attempted
              /\ ~InsufficientHistory
              /\ ForecastFailed => forecast_df = << >>
              /\ ~ForecastFailed =>
                   /\ Len(forecast_df) = 3
                   /\ \A i \in 1..3 : forecast_df[i].Month = <<"Month +", i>>

\* C8 witness: three months of history and a forecast of three points.
C8_Witness ==
    /\ Forecasted
    /\ Len(monthly_df) >= 3
    /\ fit_attempted
    /\ Len(forecast_df) = 3

\* The outputs of the stages after the forecast, recomputed from the inputs.
\* keeps_na: what astype(str) does to a missing description (it shows in the
\* Description column only).
CleanedFromInputs(keeps_na) ==
    normalise(df_raw, use_type_col, type_value_credit, type_value_debit, keeps_na)
CsvFromInputs(keeps_na) ==
    LET cleaned == CleanedFromInputs(keeps_na) IN
    [k \in 1..Len(cleaned) |->
       [Date |-> cleaned[k].Date,
        Description |-> cleaned[k].Description,
        Amount |-> cleaned[k].SignedAmount,
        Category |-> categorize(cleaned[k].Description)]]

\* C9: forecast failure is absorbed at the forecast stage.  A run that attempted
\* the fit is never halted: it holds a forecast or the warning 'Forecast not
\* available' with the reason.  After the warning the run goes on, the
\* monthly table shown and the CSV rows exported are those computed from the
\* inputs alone (the same as in a run whose forecast succeeded), and the run
\* can always take its next step until it is done.
C9_ForecastFailureAbsorbed ==
    /\ fit_attempted =>
         /\ pc \in {"trend", "download", "done"}
         /\ ForecastFailed # (forecast_df # << >>)
    /\ ForecastFailed =>
         /\ fit_attempted
         /\ LastNotice.level = "warning"
         /\ LastNotice.detail \in ForecastErrors
         /\ \A keeps_na \in BOOLEAN : monthly_df = monthly_df_of(CleanedFromInputs(keeps_na))
         /\ pc # "done" => ENABLED Next
         /\ pc \in {"download", "done"} => trend_table = <<monthly_df>>
         /\ pc = "done" => \E keeps_na \in BOOLEAN : csv_data = <<CsvFromInputs(keeps_na)>>

\* C9 witness: a finished run whose forecast failed, with the trend table
\* shown and the CSV exported.
C9_Witness ==
    /\ pc = "done"
    /\ ForecastFailed
    /\ trend_table # << >>
    /\ csv_data # << >>

\* C10: halt policy.  A run on an uploaded file halts only with one of the
\* errors 'could not read the file', 'empty file' or 'no valid rows', and a
\* halted run has executed no downstream stage.  A table without a valid row
\* halts at cleaning with 'no valid rows'.  A run on a table with at least one
\* valid row never halts, and when done has classified, aggregated, passed the
\* forecast stage, shown the trend table and exported.
HaltTexts == {"Could not read the file", "The uploaded file seems to be empty",
              "No valid rows after cleaning"}
NoValidRows == \A i \in 1..Len(df_raw) : ~ValidRow(i)
NothingDownstream ==
    /\ df = << >>
    /\ monthly_df = << >>
    /\ total_inflow = 0 /\ total_outflow = 0 /\ savings_total = 0
    /\ ~fit_attempted
    /\ forecast_df = << >>
    /\ trend_table = << >>
    /\ csv_data = << >>
C10_HaltPolicy ==
    /\ pc = "stopped" => NothingDownstream
    /\ (pc = "stopped" /\ uploaded_file) =>
         /\ LastNotice.level = "error"
         /\ LastNotice.text \in HaltTexts
         /\ LastNotice.text # "No valid rows after cleaning" => df_raw = << >>
         /\ LastNotice.text = "No valid rows after cleaning" => (df_raw # << >> /\ NoValidRows)
    /\ (pc \notin {"map", "normalise"} /\ df_raw # << >> /\ NoValidRows) => StoppedNoValidRows
    /\ (pc \in {"stopped", "done"} /\ \E i \in 1..Len(df_raw) : ValidRow(i)) =>
         /\ pc # "stopped"
         /\ pc = "done" =>
              /\ df # << >>
              /\ \A k \in 1..Len(df) : df[k].Category = categorize(df[k].Description)
              /\ monthly_df = monthly_df_of(df)
              /\ fit_attempted \/ InsufficientHistory
              /\ trend_table = <<monthly_df>>
              /\ csv_data # << >> /\ Len(csv_data[1]) = Len(df)

\* C10 witness: a table of rows that fail the amount check, the date check or
\* both, halted at cleaning.
C10_Witness ==
    /\ StoppedNoValidRows
    /\ \E i \in 1..Len(df_raw) : ~NumericAmount(i)
    /\ \E i \in 1..Len(df_raw) : NumericAmount(i) /\ ~ParseableDate(i)

\* The keyword groups in their priority order, as the specification lists them.
Groups == <<
    [label |-> "Food & Dining", keywords |-> {<<"s", "w", "i", "g", "g", "y">>, <<"z", "o", "m", "a", "t", "o">>, <<"r", "e", "s", "t", "a", "u", "r", "a", "n", "t">>, <<"f", "o", "o", "d">>, <<"d", "i", "n", "i", "n", "g">>}],
    [label |-> "Shopping", keywords |-> {<<"a", "m", "a", "z", "o", "n">>, <<"f", "l", "i", "p", "k", "a", "r", "t">>, <<"m", "y", "n", "t", "r", "a">>, <<"a", "j", "i", "o">>, <<"m", "e", "e", "s", "h", "o">>}],
    [label |-> "Rent", keywords |-> {<<"r", "e", "n", "t">>}],
    [label |-> "Fuel & Transport", keywords |-> {<<"p", "e", "t", "r", "o", "l">>, <<"f", "u", "e", "l">>, <<"s", "h", "e", "l", "l">>, <<"h", "p", "c", "l">>, <<"b", "p", "c", "l">>, <<"i", "n", "d", "i", "a", "n", "o", "i", "l">>}],
    [label |-> "Mobile & Internet", keywords |-> {<<"r", "e", "c", "h", "a", "r", "g", "e">>, <<"j", "i", "o">>, <<"a", "i", "r", "t", "e", "l">>, <<"v", "i", " ">>, <<"v", "o", "d", "a", "f", "o", "n", "e">>, <<"b", "s", "n", "l">>}],
    [label |-> "Utilities", keywords |-> {<<"e", "l", "e", "c", "t", "r", "i", "c", "i", "t", "y">>, <<"e", "b">>, <<"t", "n", "e", "b">>, <<"g", "a", "s", " ", "b", "i", "l", "l">>, <<"p", "o", "w", "e", "r", " ", "b", "i", "l", "l">>}],
    [label |-> "Salary", keywords |-> {<<"s", "a", "l", "a", "r", "y">>, <<"p", "a", "y", "r", "o", "l", "l">>, <<"s", "a", "l", "a", "r", "y", " ", "c", "r", "e", "d", "i", "t">>, <<"s", "a", "l", " ">>}],
    [label |-> "Loans & EMI", keywords |-> {<<"e", "m", "i">>, <<"l", "o", "a", "n">>, <<"r", "e", "p", "a", "y", "m", "e", "n", "t">>}],
    [label |-> "Health & Medical", keywords |-> {<<"h", "o", "s", "p", "i", "t", "a", "l">>, <<"p", "h", "a", "r", "m", "a", "c", "y">>, <<"m", "e", "d", "i", "c", "a", "l">>, <<"c", "l", "i", "n", "i", "c">>}],
    [label |-> "Education", keywords |-> {<<"s", "c", "h", "o", "o", "l">>, <<"c", "o", "l", "l", "e", "g", "e">>, <<"f", "e", "e", "s">>, <<"t", "u", "i", "t", "i", "o", "n">>}],
    [label |-> "Entertainment & Subscriptions", keywords |-> {<<"n", "e", "t", "f", "l", "i", "x">>, <<"h", "o", "t", "s", "t", "a", "r">>, <<"p", "r", "i", "m", "e", " ", "v", "i", "d", "e", "o">>, <<"p", "r", "i", "m", "e", " ">>, <<"s", "p", "o", "t", "i", "f", "y">>, <<"w", "y", "n", "k">>}]
>>
CategoryLabels == {Groups[g].label : g \in 1..Len(Groups)} \union {"Others"}
\* k is a substring of d, letter case ignored.
ContainsNoCase(d, k) == Contains(Lower(d), Lower(k))
MatchingGroups(d) == {g \in 1..Len(Groups) : \E k \in Groups[g].keywords : ContainsNoCase(d, k)}
Earliest(G) == CHOOSE g \in G : \A h \in G : g <= h

\* C3: categorize is first-match-wins over the fixed group order.  The label of
\* every description is that of the earliest group with a keyword that is a
\* case-insensitive substring of the description, and Others exactly when no
\* group matches.
C3_FirstMatchWins ==
    \A i \in 1..Len(labels) :
      LET G == MatchingGroups(Flatten(pieces)) IN
      /\ G # {} => labels[i] = Groups[Earliest(G)].label
      /\ (labels[i] = "Others") <=> (G = {})

\* C3 witness: a description with a Shopping keyword and a Rent keyword,
\* labelled Shopping.
C3_Witness ==
    /\ labels # << >>
    /\ ContainsNoCase(Flatten(pieces), <<"a", "m", "a", "z", "o", "n">>)
    /\ ContainsNoCase(Flatten(pieces), <<"r", "e", "n", "t">>)
    /\ labels[1] = "Shopping"

\* C4: categorize is total and deterministic.  Every call returns one of the
\* 12 fixed labels, and two calls on the same description return the same label.
C4_TotalDeterministic ==
    /\ Cardinality(CategoryLabels) = 12
    /\ \A i \in 1..Len(labels) : labels[i] \in CategoryLabels
    /\ \A i, j \in 1..Len(labels) : labels[i] = labels[j]

\* C4 witness: a description no group matches, classified twice as Others.
C4_Witness ==
    /\ Len(labels) = 2
    /\ pieces # << >>
    /\ MatchingGroups(Flatten(pieces)) = {}
    /\ labels[1] = "Others"
    /\ labels[2] = "Others"

\* The rows of the cleaned table whose type value matches neither token.
Unmatched(i) == NormType(i) \notin {NormCredit, NormDebit}
UnmatchedRows == {k \in 1..Len(df) : Unmatched(df[k].idx)}
MatchedRow(r) == ~Unmatched(r.idx)

\* C11: unmatched type token in the unsigned-amount branch (type column
\* configured, minimum amount >= 0).  A row that passes both parse checks and
\* whose type value matches neither token is retained with signed_amount
\* exactly 0, is among the exported rows with amount 0, and adds nothing to
\* total_inflow or total_outflow, overall or in any month: the totals and the
\* monthly table are those of the table without such rows.
C11_UnmatchedTokenZero ==
    (Cleaned /\ use_type_col /\ MinAmountNonNeg) =>
      /\ \A i \in 1..Len(df_raw) :
           (ValidRow(i) /\ Unmatched(i)) =>
             \E k \in 1..Len(df) : df[k].idx = i /\ df[k].SignedAmount = 0
      /\ Aggregated =>
           /\ total_inflow = SumOver(df, Positive(df) \ UnmatchedRows)
           /\ total_outflow = SumOver(df, Negative(df) \ UnmatchedRows)
           /\ monthly_df = monthly_df_of(SelectSeq(df, MatchedRow))
      /\ pc = "done" =>
           /\ csv_data # << >>
           /\ Len(csv_data[1]) = Len(df)
           /\ \A k \in UnmatchedRows :
                csv_data[1][k].Amount = 0 /\ csv_data[1][k].Date = df[k].Date

\* C11 witness: a finished run in the unsigned branch with a credit, a debit
\* and a row of amount 700 whose type matches neither token.
C11_Witness ==
    /\ pc = "done"
    /\ use_type_col /\ MinAmountNonNeg
    /\ total_inflow > 0
    /\ total_outflow < 0
    /\ \E k \in UnmatchedRows : df[k].Amount > 0 /\ df[k].SignedAmount = 0

\* C12: a retained transaction whose source description cell is absent has
\* description equal to the empty string.
C12_AbsentDescriptionEmpty ==
    Cleaned =>
      \A k \in 1..Len(df) :
        df_raw[df[k].idx].Description = NA => df[k].Description = << >>

\* The table without its row j, and the SignedAmount column of a cleaned table.
WithoutRow(t, j) == SubSeq(t, 1, j - 1) \o SubSeq(t, j + 1, Len(t))
SignedColumn(d) == [k \in 1..Len(d) |-> d[k].SignedAmount]

\* C13: the choice between token-derived signs and the amount's own sign is
\* determined only by rows that end up retained: removing a row that has a
\* numeric amount and is dropped for its unparseable date leaves the
\* signed_amount of every retained transaction as it is.
C13_DroppedRowsDoNotChangeSigns ==
    Cleaned =>
      \A j \in 1..Len(df_raw) :
        (NumericAmount(j) /\ ~ParseableDate(j)) =>
          SignedColumn(df) =
            SignedColumn(normalise(WithoutRow(df_raw, j), use_type_col,
                                   type_value_credit, type_value_debit, FALSE))

=============================================================================
